---- MODULE Spec2Model ----
(***************************************************************************)
(* State-machine model of the three browser-automation scripts             *)
(*   xserver_autorenew.py, renew_eternalzero.py, auto_start_falix.py       *)
(* Each run of a script is a sequential walk through its main(); the page  *)
(* is an opaque collaborator, so every query of the page (is an element    *)
(* visible, did a click succeed, did a navigation raise) is an outcome     *)
(* chosen by the environment.  Time is counted in hours.  The ledger is    *)
(* the renew_result.md file, kept as the sequence of its lines.            *)
(***************************************************************************)
EXTENDS Integers, Sequences, FiniteSets, TLC

VARIABLES ledger, now, runs, cfg, run, peer, fn

vars == <<ledger, now, runs, cfg, run, peer, fn>>

(* ------------------------------ bounds --------------------------------- *)
MaxRuns == 2
TimeSteps == {1, 60}
Intervals == {2, 60}

(* ------------------------- configuration values ------------------------ *)
Scripts == {"xserver", "eternal", "falix"}
\* a cookie string is empty (or blank), has no segment containing '=', or
\* has at least one name=value segment
CookieKinds == {"empty", "nopairs", "pairs"}
Methods == {"AUTO", "COOKIE", "EMAIL", "OTHER"}

DefaultCfg ==
    [cookie |-> "empty", email |-> FALSE, password |-> FALSE, method |-> "AUTO",
     force |-> FALSE, interval |-> 60, tzOk |-> TRUE]

XserverCfgs ==
    [cookie : CookieKinds, email : BOOLEAN, password : BOOLEAN, method : {"AUTO"},
     force : BOOLEAN, interval : Intervals, tzOk : BOOLEAN]

EternalCfgs ==
    [cookie : CookieKinds, email : BOOLEAN, password : BOOLEAN, method : Methods,
     force : {FALSE}, interval : {60}, tzOk : {TRUE}]

FalixCfgs ==
    [cookie : CookieKinds, email : {FALSE}, password : {FALSE}, method : {"AUTO"},
     force : {FALSE}, interval : {60}, tzOk : {TRUE}]

CfgsOf(s) ==
    IF s = "xserver" THEN XserverCfgs
    ELSE IF s = "eternal" THEN EternalCfgs ELSE FalixCfgs

(* ------------------------------ the ledger ----------------------------- *)
\* LOG_TIMEZONE defaults to Asia/Tokyo, nine hours ahead of UTC
LOG_TIMEZONE == "Asia/Tokyo"
TokyoOffset == 9
\* the marker word that ends every line the script writes (the word for "success")
SuccessMarker == "success"

\* A line is the record of its fields.  ts is the wall-clock hour printed in
\* the line, in the zone named by label.  The field at is not in the file: it
\* remembers the UTC hour at which the line was written.
\* NoteLine is a hand-written annotation; OldLine a success line written 100 h
\* before the model's hour 0 by a run whose zone could not be loaded.
NoteLine == [hasTs |-> FALSE, ts |-> 0, label |-> "", marker |-> "", at |-> 0]
OldLine == [hasTs |-> TRUE, ts |-> 0 - 100, label |-> "UTC", marker |-> SuccessMarker,
            at |-> 0 - 100]
InitLedgers == {<<>>, <<NoteLine>>, <<OldLine, NoteLine>>}

IsPrefix(s, t) == Len(s) <= Len(t) /\ SubSeq(t, 1, Len(s)) = s

\* open(filepath, "w") in place of "a": the file is truncated first
write_success_md_truncating(l, t, tzOk) ==
    <<[hasTs |-> TRUE,
       ts |-> IF tzOk THEN t + TokyoOffset ELSE t,
       label |-> IF tzOk THEN LOG_TIMEZONE ELSE "UTC",
       marker |-> SuccessMarker,
       at |-> t]>>

\* the line is written without the success marker
write_success_md_unmarked(l, t, tzOk) ==
    Append(l, [hasTs |-> TRUE,
               ts |-> IF tzOk THEN t + TokyoOffset ELSE t,
               label |-> IF tzOk THEN LOG_TIMEZONE ELSE "UTC",
               marker |-> "",
               at |-> t])

\* the configured zone name is printed even when the zone could not be loaded
write_success_md_mislabelled(l, t, tzOk) ==
    Append(l, [hasTs |-> TRUE,
               ts |-> IF tzOk THEN t + TokyoOffset ELSE t,
               label |-> LOG_TIMEZONE,
               marker |-> SuccessMarker,
               at |-> t])

\* write_success_md: the file content after the call, for content l, UTC
\* clock t, and tzOk = the configured zone could be loaded
write_success_md(l, t, tzOk) ==
    Append(l, [hasTs |-> TRUE,
               ts |-> IF tzOk THEN t + TokyoOffset ELSE t,
               label |-> IF tzOk THEN LOG_TIMEZONE ELSE "UTC",
               marker |-> SuccessMarker,
               at |-> t])

(* --------------------------- admission gate ---------------------------- *)
ZoneOffset(label) == IF label = LOG_TIMEZONE THEN TokyoOffset ELSE 0

\* a line is recognised when it carries a timestamp and a known zone label
Parseable(line) == line.hasTs /\ line.label \in {LOG_TIMEZONE, "UTC", "Z"}

\* the timestamp of a line as an absolute (UTC) hour
ParseTimestamp(line) == line.ts - ZoneOffset(line.label)

IsSuccessLine(line) == Parseable(line) /\ line.marker = SuccessMarker

RECURSIVE LastSuccessFrom(_, _)
\* scan from index i towards the start; 0 when no success line is found
LastSuccessFrom(l, i) ==
    IF i = 0 THEN 0
    ELSE IF IsSuccessLine(l[i]) THEN i
    ELSE LastSuccessFrom(l, i - 1)

LastSuccess(l) == LastSuccessFrom(l, Len(l))

RECURSIVE FirstSuccessFrom(_, _)
FirstSuccessFrom(l, i) ==
    IF i > Len(l) THEN 0
    ELSE IF IsSuccessLine(l[i]) THEN i
    ELSE FirstSuccessFrom(l, i + 1)

\* the gate compares with the oldest success line instead of the newest
isDue_oldest(l, interval, t) ==
    \/ FirstSuccessFrom(l, 1) = 0
    \/ t >= ParseTimestamp(l[FirstSuccessFrom(l, 1)]) + interval

\* isDue: now >= lastSuccess + interval; no success line means due
isDue(l, interval, t) ==
    \/ LastSuccess(l) = 0
    \/ t >= ParseTimestamp(l[LastSuccess(l)]) + interval

(* ------------------------------ run state ------------------------------ *)
IdleRun ==
    [script |-> "none", pc |-> "idle", rc |-> -1, crashed |-> FALSE,
     site |-> "none", ledger0 |-> <<>>, due |-> "unknown",
     browser |-> "none", context |-> "none", navigated |-> FALSE,
     cookieRes |-> "none", pwdRes |-> "none", logged_in |-> FALSE,
     entry |-> "none", sel |-> "none", conf |-> "none",
     txt |-> "none", fb |-> "none", phrase |-> "none", success |-> "none",
     detail |-> "none", addObs |-> "none", addClicks |-> 0,
     startObs |-> "none", stopObs |-> "none", stopEn |-> "none",
     startEn |-> "none", startClicks |-> 0, online |-> "none",
     diag |-> FALSE, cause |-> "none", located |-> "none", opened |-> "none",
     view |-> "none", agree |-> "none"]

\* the fields added for the stages of a run:
\*   diag     a screenshot or markup dump was attempted in this run
\*   cause    the exception that left main: "timeout", "error" or "none"
\*   located  navigate_to_game_management clicked a control: "yes" / "no"
\*   opened   click_upgrade_or_extend opened the extend page: "yes" / "no"
\*   view     the screen the page shows when do_extend_hours starts ("entry"
\*            or "final"); after the entry click "submitted" when that click
\*            hit the submit control of the final screen, else "flow"
\*   agree    accept_required_checks found a box to check: "yes" / "no"

\* a second process of xserver_autorenew working on the same ledger file
IdlePeer == [pc |-> "idle", due |-> "unknown", ledger0 |-> <<>>, success |-> FALSE,
             rc |-> -1]

\* no function call is being examined
NoCall == [f |-> "none", done |-> TRUE]

EntryPc(s) ==
    IF s = "xserver" THEN "gate"
    ELSE IF s = "eternal" THEN "e_main" ELSE "f_main"

\* the process ends with exit code c at the code site named site
Exit(r, c, s) == [r EXCEPT !.pc = "exit", !.rc = c, !.site = s]

\* an exception escapes main: the interpreter prints a traceback, exit code 1
Crash(r) == [r EXCEPT !.pc = "exit", !.rc = 1, !.crashed = TRUE, !.site = "exception"]

\* page.goto raised: a TimeoutError after the navigation timeout, or another
\* Playwright error; nothing catches either
GotoRaised(r) == {Crash([r EXCEPT !.cause = c]) : c \in {"timeout", "error"}}

\* snap, dump_html, page.screenshot: an attempt to write a diagnostic file
Snap(r) == [r EXCEPT !.diag = TRUE]

Closed(r) == [r EXCEPT !.context = "closed", !.browser = "closed"]

Init ==
    /\ ledger \in InitLedgers
    /\ now = 0
    /\ runs = 0
    /\ cfg = DefaultCfg
    /\ run = IdleRun
    /\ peer = IdlePeer
    /\ fn = NoCall

\* the process of a finished run is gone; only the ledger and the clock remain
ProcessGone ==
    /\ run.pc = "exit"
    /\ run' = IdleRun
    /\ UNCHANGED <<ledger, now, runs, cfg, peer, fn>>

\* a scheduled invocation of one of the scripts
StartRun ==
    /\ run.pc = "idle"
    /\ runs < MaxRuns
    /\ \E s \in Scripts : \E c \in CfgsOf(s) : \E d \in TimeSteps :
          /\ cfg' = c
          /\ now' = now + d
          /\ run' = [IdleRun EXCEPT !.script = s, !.pc = EntryPc(s), !.ledger0 = ledger]
    /\ runs' = runs + 1
    /\ UNCHANGED <<ledger, peer, fn>>

\* the admission gate runs ahead of xserver_autorenew's main
AdmissionGate ==
    /\ run.pc = "gate"
    /\ run' = IF cfg.force
              THEN [run EXCEPT !.pc = "x_main", !.due = "forced"]
              ELSE IF isDue(ledger, cfg.interval, now)
                   THEN [run EXCEPT !.pc = "x_main", !.due = "due"]
                   ELSE Exit([run EXCEPT !.due = "notdue"], 0, "notdue")
    /\ UNCHANGED <<ledger, now, runs, cfg, peer, fn>>

(* ===================== xserver_autorenew.py: main ====================== *)
Yn(b) == IF b THEN "yes" ELSE "no"

\* the browser is launched whatever the credentials are
xs_missing_credentials_never(c) == FALSE

\* main: not COOKIE_STR and (not EMAIL or not PASSWORD)
xs_missing_credentials(c) == c.cookie = "empty" /\ (~c.email \/ ~c.password)

\* the final-submit failure exits with the code of the login failure
xs_exit_code_reused(site) ==
    CASE site = "creds" -> 1
      [] site = "auth" -> 2
      [] site = "locate" -> 3
      [] site = "entry" -> 3
      [] site = "submit" -> 2
      [] OTHER -> 0

\* the literal handed to sys.exit at each exit of main
xs_exit_code(site) ==
    CASE site = "creds" -> 1
      [] site = "auth" -> 2
      [] site = "locate" -> 3
      [] site = "entry" -> 3
      [] site = "submit" -> 4
      [] OTHER -> 0

\* the password path is tried even after the cookie path logged in
xs_try_password_always(logged_in, c) == c.email /\ c.password

\* main: if not logged_in and EMAIL and PASSWORD
xs_try_password(logged_in, c) == ~logged_in /\ c.email /\ c.password

\* a missing success phrase is reported as failure
do_extend_hours_returns_strict(txt, fb, phrase) ==
    IF ~txt /\ ~fb THEN FALSE ELSE phrase

\* the value do_extend_hours returns: txt = a final-submit text pattern was
\* clicked, fb = click_submit_fallback clicked, phrase = a success phrase is
\* visible after the submit
do_extend_hours_returns(txt, fb, phrase) ==
    IF ~txt /\ ~fb THEN FALSE
    ELSE IF phrase THEN TRUE
    ELSE TRUE

\* the success line is written whatever do_extend_hours returned
main_ledger_after_always(success, l, t, tzOk) == write_success_md(l, t, tzOk)

\* main: if success: write_success_md(RENEW_LOG_MD, LOG_TIMEZONE)
main_ledger_after(success, l, t, tzOk) ==
    IF success THEN write_success_md(l, t, tzOk) ELSE l

xs_main_credentials ==
    /\ run.pc = "x_main"
    /\ run' = IF xs_missing_credentials(cfg)
              THEN Exit(run, xs_exit_code("creds"), "creds")
              ELSE [run EXCEPT !.pc = "x_cookie", !.browser = "open", !.context = "open"]
    /\ UNCHANGED <<ledger, now, runs, cfg, peer, fn>>

\* main's "if COOKIE_STR" and the body of cookie_login
cookie_login ==
    /\ run.pc = "x_cookie"
    /\ \/ /\ cfg.cookie = "empty"
          /\ run' = [run EXCEPT !.pc = "x_password"]
       \/ /\ cfg.cookie = "nopairs"
          /\ run' = [run EXCEPT !.pc = "x_password", !.cookieRes = "fail"]
       \/ /\ cfg.cookie = "pairs"
          \* "raise": the first goto raised (nothing snapped yet) or the second
          /\ \E out \in {"addfail", "raise", "ok", "fail"}, snapped \in BOOLEAN :
                \/ /\ out = "addfail" /\ ~snapped
                   /\ run' = [run EXCEPT !.pc = "x_password", !.cookieRes = "fail"]
                \/ /\ out = "raise"
                   /\ run' \in GotoRaised([run EXCEPT !.navigated = TRUE,
                                                      !.cookieRes = "crash",
                                                      !.diag = snapped])
                \/ /\ out = "ok" /\ snapped
                   /\ run' = Snap([run EXCEPT !.pc = "x_password", !.navigated = TRUE,
                                              !.cookieRes = "ok", !.logged_in = TRUE])
                \/ /\ out = "fail" /\ snapped
                   /\ run' = Snap([run EXCEPT !.pc = "x_password", !.navigated = TRUE,
                                              !.cookieRes = "fail"])
    /\ UNCHANGED <<ledger, now, runs, cfg, peer, fn>>

\* main's "if not logged_in and EMAIL and PASSWORD" and the body of password_login
password_login ==
    /\ run.pc = "x_password"
    /\ IF xs_try_password(run.logged_in, cfg)
       THEN \E out \in {"raise", "ok", "fail"} :
                run' \in CASE out = "raise" ->
                              GotoRaised([run EXCEPT !.navigated = TRUE, !.pwdRes = "crash"])
                         [] out = "ok" ->
                              {Snap([run EXCEPT !.pc = "x_auth", !.navigated = TRUE,
                                                !.pwdRes = "ok", !.logged_in = TRUE])}
                         [] OTHER ->
                              {Snap([run EXCEPT !.pc = "x_auth", !.navigated = TRUE,
                                                !.pwdRes = "fail", !.logged_in = FALSE])}
       ELSE run' = [run EXCEPT !.pc = "x_auth"]
    /\ UNCHANGED <<ledger, now, runs, cfg, peer, fn>>

\* main goes on to the game index without looking at logged_in
xs_main_login_check_unchecked ==
    /\ run.pc = "x_auth"
    /\ run' = [run EXCEPT !.pc = "x_index"]
    /\ UNCHANGED <<ledger, now, runs, cfg, peer, fn>>

\* main: if not logged_in: snap, close, sys.exit(2)
xs_main_login_check ==
    /\ run.pc = "x_auth"
    /\ run' = IF ~run.logged_in
              THEN Exit(Closed(Snap(run)), xs_exit_code("auth"), "auth")
              ELSE [run EXCEPT !.pc = "x_index"]
    /\ UNCHANGED <<ledger, now, runs, cfg, peer, fn>>

\* goto: page.goto is outside the try, so a failed navigation escapes
ensure_on_game_index ==
    /\ run.pc = "x_index"
    /\ \E raised \in BOOLEAN :
          run' \in IF raised
                   THEN GotoRaised([run EXCEPT !.navigated = TRUE])
                   ELSE {Snap([run EXCEPT !.pc = "x_nav", !.navigated = TRUE])}
    /\ UNCHANGED <<ledger, now, runs, cfg, peer, fn>>

\* "raise": the goto at the head of the function raised
navigate_to_game_management ==
    /\ run.pc = "x_nav"
    /\ \E out \in {"raise", "clicked", "notfound"} :
          run' \in CASE out = "raise" -> GotoRaised(run)
                     [] out = "clicked" ->
                          {Snap([run EXCEPT !.pc = "x_upgrade", !.located = "yes"])}
                     [] OTHER ->
                          {Exit(Closed(Snap([run EXCEPT !.located = "no"])),
                                xs_exit_code("locate"), "locate")}
    /\ UNCHANGED <<ledger, now, runs, cfg, peer, fn>>

click_upgrade_or_extend ==
    /\ run.pc = "x_upgrade"
    /\ \E opened \in BOOLEAN, v \in {"entry", "final"} :
          \* v: the page now shows the entry button, or already the final
          \* screen with its submit button
          run' = IF opened
                 THEN Snap([run EXCEPT !.pc = "x_ext_entry", !.opened = "yes",
                                       !.view = v])
                 ELSE Exit(Closed(Snap([run EXCEPT !.opened = "no"])),
                           xs_exit_code("entry"), "entry")
    /\ UNCHANGED <<ledger, now, runs, cfg, peer, fn>>

\* do_extend_hours, entry click: attempted whatever the page shows.  The
\* texts of the entry click are the first two of final_texts: on the final
\* screen the control that the click finds is the final submit control.
do_extend_hours_entry ==
    /\ run.pc = "x_ext_entry"
    /\ \E b \in BOOLEAN :
          run' = [run EXCEPT !.pc = "x_ext_select", !.entry = Yn(b),
                     !.view = IF run.view = "final" /\ b THEN "submitted" ELSE "flow"]
    /\ UNCHANGED <<ledger, now, runs, cfg, peer, fn>>

\* do_extend_hours gives up (returns False) when the option cannot be selected
do_extend_hours_select_fatal ==
    /\ run.pc = "x_ext_select"
    /\ \E b \in BOOLEAN, a \in BOOLEAN :
          run' = IF b
                 THEN [run EXCEPT !.pc = "x_ext_confirm", !.sel = Yn(b), !.agree = Yn(a)]
                 ELSE [run EXCEPT !.pc = "x_finish", !.sel = Yn(b), !.success = "no"]
    /\ UNCHANGED <<ledger, now, runs, cfg, peer, fn>>

\* do_extend_hours, select_hours then accept_required_checks
do_extend_hours_select ==
    /\ run.pc = "x_ext_select"
    /\ \E b \in BOOLEAN, a \in BOOLEAN :
          run' = [run EXCEPT !.pc = "x_ext_confirm", !.sel = Yn(b), !.agree = Yn(a)]
    /\ UNCHANGED <<ledger, now, runs, cfg, peer, fn>>

\* do_extend_hours, the confirm click then accept_required_checks
do_extend_hours_confirm ==
    /\ run.pc = "x_ext_confirm"
    /\ \E b \in BOOLEAN : run' = [run EXCEPT !.pc = "x_ext_submit", !.conf = Yn(b)]
    /\ UNCHANGED <<ledger, now, runs, cfg, peer, fn>>

\* do_extend_hours, the final submit: text patterns, then click_submit_fallback
do_extend_hours_submit ==
    /\ run.pc = "x_ext_submit"
    /\ \E t \in BOOLEAN, f \in BOOLEAN :
          LET fbClicked == ~t /\ f
              r == [run EXCEPT !.txt = Yn(t), !.fb = IF t THEN "none" ELSE Yn(f)]
          IN  run' = IF ~t /\ ~fbClicked
                     THEN [r EXCEPT !.pc = "x_finish",
                              !.success = Yn(do_extend_hours_returns(t, fbClicked, FALSE))]
                     ELSE [r EXCEPT !.pc = "x_ext_verify"]
    /\ UNCHANGED <<ledger, now, runs, cfg, peer, fn>>

\* do_extend_hours, the scan for a success phrase
do_extend_hours_verify ==
    /\ run.pc = "x_ext_verify"
    /\ \E p \in BOOLEAN :
          run' = [run EXCEPT !.pc = "x_finish", !.phrase = Yn(p),
                     !.success = Yn(do_extend_hours_returns(run.txt = "yes", run.fb = "yes", p))]
    /\ UNCHANGED <<ledger, now, runs, cfg, peer, fn>>

\* main after do_extend_hours returned (a run lasts minutes: the hour clock
\* read by write_success_md is the one the run started with)
xs_main_finish ==
    /\ run.pc = "x_finish"
    /\ ledger' = main_ledger_after(run.success = "yes", ledger, now, cfg.tzOk)
    /\ run' = IF run.success = "yes"
              THEN Exit(Closed(run), xs_exit_code("done"), "done")
              ELSE Exit(Closed(run), xs_exit_code("submit"), "submit")
    /\ UNCHANGED <<now, runs, cfg, peer, fn>>

(* ======================= renew_eternalzero.py ========================== *)
\* the exit code of the process: main returns after a run without exception,
\* and every failure is an exception that main re-raises
ez_exit_code(site) == IF site \in {"done", "noop"} THEN 0 ELSE 1

\* the except block re-raises without trying to write error.png
Raise_without_screenshot(r, s) ==
    [Closed(r) EXCEPT !.pc = "exit", !.rc = ez_exit_code(s), !.crashed = TRUE,
                      !.site = s]

\* an exception leaves main: error.png is attempted, the finally block closes
\* the context and the browser, and the interpreter exits with code 1
Raise(r, s) ==
    [Closed(Snap(r)) EXCEPT !.pc = "exit", !.rc = ez_exit_code(s), !.crashed = TRUE,
                            !.site = s]

\* the exception is a RuntimeError the script raised itself
Refused(r) == [r EXCEPT !.cause = "error"]

\* the exception is the TimeoutError of a navigation, fill or click
TimedOut(r) == [r EXCEPT !.cause = "timeout"]

has_cookie(c) == c.cookie # "empty"
has_email(c) == c.email /\ c.password

\* attempt_login, up to its first login call: "cookie", "email" or "raise"
attempt_login_first(c) ==
    IF c.method = "EMAIL"
    THEN IF ~has_email(c) THEN "raise" ELSE "email"
    ELSE IF c.method \in {"COOKIE", "AUTO"}
         THEN IF has_cookie(c) THEN "cookie"
              ELSE IF has_email(c) THEN "email" ELSE "raise"
         ELSE "raise"

\* the fallback is taken in AUTO mode only
attempt_login_after_cookie_auto_only(c) ==
    IF has_email(c) /\ c.method = "AUTO" THEN "email" ELSE "raise"

\* the password path is never taken after a failed cookie login
attempt_login_after_cookie_never(c) == "raise"

\* attempt_login after login_with_cookie raised: "email" or "raise"
attempt_login_after_cookie(c) ==
    IF has_email(c) THEN "email" ELSE "raise"

\* ADD 5H is clicked although is_enabled returned False
add_5h_clicks_disabled(obs) == obs \in {"enabled", "unknown", "disabled"}

\* click_add_5h: is the button clicked, for what was observed of it: "absent"
\* (no visible match), "disabled", "enabled", "unknown" (is_enabled raised)
add_5h_clicks(obs) == obs \in {"enabled", "unknown"}

\* main up to the try block: the browser is launched whatever the credentials
ez_main_launch ==
    /\ run.pc = "e_main"
    /\ run' = [run EXCEPT !.pc = "e_login", !.browser = "open", !.context = "open"]
    /\ UNCHANGED <<ledger, now, runs, cfg, peer, fn>>

attempt_login ==
    /\ run.pc = "e_login"
    /\ run' = CASE attempt_login_first(cfg) = "cookie" -> [run EXCEPT !.pc = "e_cookie"]
                [] attempt_login_first(cfg) = "email" -> [run EXCEPT !.pc = "e_email"]
                [] OTHER -> Raise(Refused(run), "creds")
    /\ UNCHANGED <<ledger, now, runs, cfg, peer, fn>>

\* login_with_cookie inside attempt_login's try: every exception is caught
login_with_cookie ==
    /\ run.pc = "e_cookie"
    /\ \E out \in {"nopairs", "addfail", "gotofail", "loginpage", "ok"} :
          /\ (out = "nopairs") <=> (cfg.cookie = "nopairs")
          /\ LET nav == out \in {"gotofail", "loginpage", "ok"}
                 r == [run EXCEPT !.navigated = nav]
             IN  run' = IF out = "ok"
                        THEN [r EXCEPT !.pc = "e_detail", !.cookieRes = "ok",
                                       !.logged_in = TRUE]
                        ELSE IF attempt_login_after_cookie(cfg) = "email"
                             THEN [r EXCEPT !.pc = "e_email", !.cookieRes = "fail"]
                             ELSE Raise(Refused([r EXCEPT !.cookieRes = "fail"]), "auth")
    /\ UNCHANGED <<ledger, now, runs, cfg, peer, fn>>

\* login_with_email: every failure is an exception that leaves attempt_login
login_with_email ==
    /\ run.pc = "e_email"
    /\ \E out \in {"ok", "rejected", "timeout"} :
          LET r == [run EXCEPT !.navigated = TRUE] IN
          run' = CASE out = "ok" ->
                        [r EXCEPT !.pc = "e_detail", !.pwdRes = "ok", !.logged_in = TRUE]
                   [] out = "rejected" ->
                        Raise(Refused([r EXCEPT !.pwdRes = "fail"]), "auth")
                   [] OTHER ->
                        Raise(TimedOut([r EXCEPT !.pwdRes = "fail"]), "auth")
    /\ UNCHANGED <<ledger, now, runs, cfg, peer, fn>>

go_to_server_detail ==
    /\ run.pc = "e_detail"
    /\ \E out \in {"already", "opened", "failed", "raise"} :
          run' = CASE out \in {"already", "opened"} ->
                        [run EXCEPT !.pc = "e_add", !.detail = out]
                   [] out = "failed" -> Raise(Refused([run EXCEPT !.detail = out]), "locate")
                   [] OTHER -> Raise(TimedOut([run EXCEPT !.detail = out]), "locate")
    /\ UNCHANGED <<ledger, now, runs, cfg, peer, fn>>

\* click_add_5h and the rest of main
click_add_5h ==
    /\ run.pc = "e_add"
    /\ \E obs \in {"absent", "disabled", "enabled", "unknown"}, raised \in BOOLEAN :
          LET r == Snap([run EXCEPT !.addObs = obs]) IN
          run' = IF ~add_5h_clicks(obs)
                 THEN [Closed(r) EXCEPT !.pc = "exit", !.rc = ez_exit_code("noop"),
                                        !.site = "noop",
                                        !.success = "no"]
                 ELSE IF raised
                      THEN Raise(TimedOut([r EXCEPT !.addClicks = @ + 1]), "submit")
                      ELSE [Closed(r) EXCEPT !.pc = "exit", !.rc = ez_exit_code("done"),
                                             !.site = "done",
                                             !.addClicks = @ + 1, !.success = "yes"]
    /\ UNCHANGED <<ledger, now, runs, cfg, peer, fn>>

(* ========================= auto_start_falix.py ========================= *)
\* the value main returns at each of its return statements
falix_exit_code(site) ==
    CASE site = "creds" -> 2
      [] site = "unparsed" -> 3
      [] site = "auth" -> 4
      [] site = "submit" -> 5
      [] site = "entry" -> 6
      [] OTHER -> 0

\* Start is clicked whatever is_enabled returned
falix_start_clickable_any(en) == en \in {"yes", "no"}

\* main: if start_btn.is_enabled()
falix_start_clickable(en) == en = "yes"

\* main up to the launch: both credential checks come before the browser
falix_main_cookies ==
    /\ run.pc = "f_main"
    /\ \E addRaised \in BOOLEAN :
          run' = CASE cfg.cookie = "empty" -> Exit(run, falix_exit_code("creds"), "creds")
                   [] cfg.cookie = "nopairs" ->
                        Exit(run, falix_exit_code("unparsed"), "unparsed")
                   [] OTHER ->
                        IF addRaised
                        THEN Crash(Refused([run EXCEPT !.browser = "open",
                                                       !.context = "open"]))
                        ELSE [run EXCEPT !.pc = "f_home", !.browser = "open",
                                         !.context = "open"]
    /\ UNCHANGED <<ledger, now, runs, cfg, peer, fn>>

\* the home page and the login-link check
falix_main_home ==
    /\ run.pc = "f_home"
    /\ \E out \in {"error", "loginseen", "ok"} :
          LET r == [run EXCEPT !.navigated = TRUE] IN
          run' = CASE out = "error" -> Crash(Refused(r))
                   [] out = "loginseen" -> Exit(r, falix_exit_code("auth"), "auth")
                   [] OTHER -> [r EXCEPT !.pc = "f_console", !.logged_in = TRUE]
    /\ UNCHANGED <<ledger, now, runs, cfg, peer, fn>>

falix_main_console ==
    /\ run.pc = "f_console"
    /\ \E error \in BOOLEAN :
          run' = IF error THEN Crash(Refused(run)) ELSE [run EXCEPT !.pc = "f_controls"]
    /\ UNCHANGED <<ledger, now, runs, cfg, peer, fn>>

\* wait_for_power_controls: a pair with a visible control, or (None, None)
wait_for_power_controls ==
    /\ run.pc = "f_controls"
    /\ \E a \in {"none", "hidden", "visible"}, o \in {"none", "hidden", "visible"} :
          /\ (a = "visible" \/ o = "visible") \/ (a = "none" /\ o = "none")
          /\ run' = [run EXCEPT !.pc = "f_stop", !.startObs = a, !.stopObs = o]
    /\ UNCHANGED <<ledger, now, runs, cfg, peer, fn>>

\* main: if stop_btn and stop_btn.is_enabled()
falix_main_stop ==
    /\ run.pc = "f_stop"
    /\ IF run.stopObs = "none"
       THEN run' = [run EXCEPT !.pc = "f_start"]
       ELSE \E en \in {"yes", "no", "raise"} :
               LET r == [run EXCEPT !.stopEn = en] IN
               run' = CASE en = "yes" -> Exit(r, falix_exit_code("online"), "online")
                        [] en = "raise" -> Crash(TimedOut(r))
                        [] OTHER -> [r EXCEPT !.pc = "f_start"]
    /\ UNCHANGED <<ledger, now, runs, cfg, peer, fn>>

\* main: if start_btn: if start_btn.is_enabled() ... else: return 0; return 6
falix_main_start ==
    /\ run.pc = "f_start"
    /\ IF run.startObs = "none"
       THEN run' = Exit(run, falix_exit_code("entry"), "entry")
       ELSE \E en \in {"yes", "no", "raise"} :
               LET r == [run EXCEPT !.startEn = en] IN
               run' = CASE en = "raise" -> Crash(TimedOut(r))
                        [] falix_start_clickable(en) -> [r EXCEPT !.pc = "f_click"]
                        [] OTHER -> Exit(r, falix_exit_code("noop"), "noop")
    /\ UNCHANGED <<ledger, now, runs, cfg, peer, fn>>

\* start_btn.click() inside the try
falix_main_click ==
    /\ run.pc = "f_click"
    /\ \E raised \in BOOLEAN :
          LET r == [run EXCEPT !.startClicks = @ + 1] IN
          run' = IF raised
                 THEN Exit(r, falix_exit_code("submit"), "submit")
                 ELSE [r EXCEPT !.pc = "f_confirm", !.success = "yes"]
    /\ UNCHANGED <<ledger, now, runs, cfg, peer, fn>>

\* the 60 s confirmation loop, inside the same try as the click
falix_main_confirm ==
    /\ run.pc = "f_confirm"
    /\ \E out \in {"online", "elapsed", "raise"} :
          LET r == [run EXCEPT !.online = out] IN
          run' = CASE out = "raise" -> Exit(r, falix_exit_code("submit"), "submit")
                   [] out = "online" -> Exit(r, falix_exit_code("done"), "done")
                   [] OTHER -> Exit(r, falix_exit_code("done"), "unconfirmed")
    /\ UNCHANGED <<ledger, now, runs, cfg, peer, fn>>

Next ==
    \/ StartRun
    \/ ProcessGone
    \/ AdmissionGate
    \/ xs_main_credentials
    \/ cookie_login
    \/ password_login
    \/ xs_main_login_check
    \/ ensure_on_game_index
    \/ navigate_to_game_management
    \/ click_upgrade_or_extend
    \/ do_extend_hours_entry
    \/ do_extend_hours_select
    \/ do_extend_hours_confirm
    \/ do_extend_hours_submit
    \/ do_extend_hours_verify
    \/ xs_main_finish
    \/ ez_main_launch
    \/ attempt_login
    \/ login_with_cookie
    \/ login_with_email
    \/ go_to_server_detail
    \/ click_add_5h
    \/ falix_main_cookies
    \/ falix_main_home
    \/ falix_main_console
    \/ wait_for_power_controls
    \/ falix_main_stop
    \/ falix_main_start
    \/ falix_main_click
    \/ falix_main_confirm

Spec == Init /\ [][Next]_vars

(* ============ two overlapping processes on the same ledger ============= *)
\* The second process runs the same script with the same settings.  Its main
\* is taken in one step: what matters is where it reads and where it writes
\* the ledger.  Neither process takes a lock on the file.
RaceCfgs ==
    [cookie : CookieKinds, email : {TRUE}, password : {TRUE}, method : {"AUTO"},
     force : {FALSE}, interval : Intervals, tzOk : {TRUE}]

StartRunRace ==
    /\ run.pc = "idle" /\ peer.pc = "idle"
    /\ runs < MaxRuns
    /\ \E c \in RaceCfgs : \E d \in TimeSteps :
          /\ cfg' = c
          /\ now' = now + d
          /\ run' = [IdleRun EXCEPT !.script = "xserver", !.pc = EntryPc("xserver"),
                                    !.ledger0 = ledger]
    /\ runs' = runs + 1
    /\ UNCHANGED <<ledger, peer, fn>>

\* a second invocation starts while the first is still running
PeerStart ==
    /\ run.script = "xserver" /\ run.pc # "idle"
    /\ peer.pc = "idle"
    /\ runs < MaxRuns
    /\ peer' = [IdlePeer EXCEPT !.pc = "gate"]
    /\ runs' = runs + 1
    /\ UNCHANGED <<ledger, now, cfg, run, fn>>

\* the admission gate of the second process reads the ledger as it is now
PeerGate ==
    /\ peer.pc = "gate"
    /\ peer' = IF cfg.force
               THEN [peer EXCEPT !.pc = "main", !.due = "forced", !.ledger0 = ledger]
               ELSE IF isDue(ledger, cfg.interval, now)
                    THEN [peer EXCEPT !.pc = "main", !.due = "due", !.ledger0 = ledger]
                    ELSE [peer EXCEPT !.pc = "exit", !.due = "notdue", !.rc = 0,
                                      !.ledger0 = ledger]
    /\ UNCHANGED <<ledger, now, runs, cfg, run, fn>>

\* main of the second process, from the credential check to sys.exit
PeerMain ==
    /\ peer.pc = "main"
    /\ \E site \in {"auth", "locate", "entry", "submit", "done"} :
          LET success == site = "done" IN
          /\ ledger' = main_ledger_after(success, ledger, now, cfg.tzOk)
          /\ peer' = [peer EXCEPT !.pc = "exit", !.success = success,
                                  !.rc = xs_exit_code(site)]
    /\ UNCHANGED <<now, runs, cfg, run, fn>>

PeerGone ==
    /\ peer.pc = "exit"
    /\ peer' = IdlePeer
    /\ UNCHANGED <<ledger, now, runs, cfg, run, fn>>

NextRace ==
    \/ StartRunRace
    \/ ProcessGone
    \/ AdmissionGate
    \/ xs_main_credentials
    \/ cookie_login
    \/ password_login
    \/ xs_main_login_check
    \/ ensure_on_game_index
    \/ navigate_to_game_management
    \/ click_upgrade_or_extend
    \/ do_extend_hours_entry
    \/ do_extend_hours_select
    \/ do_extend_hours_confirm
    \/ do_extend_hours_submit
    \/ do_extend_hours_verify
    \/ xs_main_finish
    \/ PeerStart
    \/ PeerGate
    \/ PeerMain
    \/ PeerGone

SpecRace == Init /\ [][NextRace]_vars

(* =================== locating the resource on a page =================== *)
\* The two locate functions are applied to pages drawn from a bounded set.  A
\* page is what the functions can observe of it: the entries of the list in
\* document order (table rows in xserver_autorenew, server links in
\* renew_eternalzero), one control outside the list and ahead of it, and
\* whether the markers of the target are already visible.  An entry is the
\* pair of: its text contains the keyword; the state of its control, which is
\* "hidden", "ok" (visible, a click succeeds) or "stuck" (visible, a click
\* times out).
MaxEntries == 3
\* navigate_to_game_management: n = min(cnt if cnt else 0, 10)
RowScanCap == 10
\* go_to_server_detail: the length of the list candidates
KeywordStrategies == 5

Controls == {"hidden", "ok", "stuck"}
Entries == [kw : BOOLEAN, ctl : Controls]
EntryLists == UNION {[1..n -> Entries] : n \in 0..MaxEntries}
Pages == [entries : EntryLists, loose : Controls \cup {"none"}, open : BOOLEAN]

\* the control with number i: 0 is the control outside the list
Ctl(page, i) == IF i = 0 THEN page.loose ELSE page.entries[i].ctl

Smaller(a, b) == IF a <= b THEN a ELSE b

RECURSIVE FirstKwFrom(_, _)
\* the first entry from i on whose text contains the keyword; 0 when none
FirstKwFrom(es, i) ==
    IF i > Len(es) THEN 0
    ELSE IF es[i].kw THEN i
    ELSE FirstKwFrom(es, i + 1)

AnyClicked(log) == \E j \in 1..Len(log) : log[j].clicked

RECURSIVE TryInOrder_all(_, _, _, _)
\* the loop has no return after a click that succeeded
TryInOrder_all(page, tier, cands, log) ==
    IF cands = <<>> THEN log
    ELSE LET c == Head(cands) IN
         IF Ctl(page, c) = "hidden"
         THEN TryInOrder_all(page, tier, Tail(cands), log)
         ELSE TryInOrder_all(page, tier, Tail(cands),
                             Append(log, [tier |-> tier, ctl |-> c,
                                          clicked |-> Ctl(page, c) = "ok"]))

RECURSIVE TryInOrder(_, _, _, _)
\* the loops "for sel in ...: if visible: if try_click(...): return True":
\* the candidates are taken in order, a hidden one is passed over, a visible
\* one is clicked, and the first click that succeeds ends the loop.  The
\* result is the log of the click attempts, appended to log.
TryInOrder(page, tier, cands, log) ==
    IF cands = <<>> THEN log
    ELSE LET c == Head(cands) IN
         IF Ctl(page, c) = "hidden"
         THEN TryInOrder(page, tier, Tail(cands), log)
         ELSE LET a == [tier |-> tier, ctl |-> c, clicked |-> Ctl(page, c) = "ok"] IN
              IF a.clicked THEN Append(log, a)
              ELSE TryInOrder(page, tier, Tail(cands), Append(log, a))

\* navigate_to_game_management on a page, keyword = TARGET_GAME is set.
\* navs counts the calls of goto; result is what the function returns.
navigate_to_game_management_on(page, keyword) ==
    LET es == page.entries
        n == Len(es)
        k == FirstKwFrom(es, 1)
        \* the row filtered by TARGET_GAME, .first
        t1 == IF keyword /\ k # 0 THEN TryInOrder(page, "keyword", <<k>>, <<>>) ELSE <<>>
        \* the first button inside a row, then the first button of the page
        inRow == IF n >= 1 THEN <<1>> ELSE <<>>
        wide == IF page.loose # "none" THEN <<0>> ELSE inRow
        t2 == IF AnyClicked(t1) THEN t1
              ELSE TryInOrder(page, "first", inRow \o wide, t1)
        \* the rows one by one
        scan == [i \in 1..Smaller(n, RowScanCap) |-> i]
        t3 == IF AnyClicked(t2) THEN t2 ELSE TryInOrder(page, "scan", scan, t2)
    IN  [navs |-> 1, log |-> t3,
         result |-> IF AnyClicked(t3) THEN "activated" ELSE "notfound"]

\* go_to_server_detail below its first check: the keyword candidates all
\* resolve to the first element with the keyword and are clicked inside a
\* try; the click on the first server link, or else on the first a/button of
\* the page, is not guarded: result "raise" when it times out.
go_to_server_detail_search(page, keyword, lands) ==
    LET es == page.entries
        k == FirstKwFrom(es, 1)
        t1 == IF keyword /\ k # 0
              THEN TryInOrder(page, "keyword", [i \in 1..KeywordStrategies |-> k], <<>>)
              ELSE <<>>
        loc == IF Len(es) >= 1 /\ es[1].ctl # "hidden" THEN 1 ELSE -1
        loc2 == IF page.loose \in {"ok", "stuck"} THEN 0 ELSE -1
        target == IF loc # -1 THEN loc ELSE loc2
        t2 == IF AnyClicked(t1) \/ target = -1 THEN t1
              ELSE Append(t1, [tier |-> IF loc # -1 THEN "first" ELSE "anywhere",
                               ctl |-> target, clicked |-> Ctl(page, target) = "ok"])
        raised == ~AnyClicked(t1) /\ target # -1 /\ Ctl(page, target) = "stuck"
    IN  [navs |-> 0, log |-> t2,
         result |-> IF raised THEN "raise"
                    ELSE IF lands THEN "activated" ELSE "failed"]

\* the check of is_on_server_detail at the head of the function is missing
go_to_server_detail_unguarded(page, keyword, lands) ==
    go_to_server_detail_search(page, keyword, lands)

\* go_to_server_detail on a page, keyword = FG_SERVER_KEYWORD is set, lands =
\* the markers are visible at the final check
go_to_server_detail_on(page, keyword, lands) ==
    IF page.open
    THEN [navs |-> 0, log |-> <<>>, result |-> "activated"]
    ELSE go_to_server_detail_search(page, keyword, lands)

LocateCalls ==
    [f : {"navigate_to_game_management", "go_to_server_detail"}, done : {FALSE},
     page : Pages, keyword : BOOLEAN, lands : BOOLEAN,
     out : {[navs |-> 0, log |-> <<>>, result |-> "none"]}]

InitLocate ==
    /\ ledger = <<>>
    /\ now = 0
    /\ runs = 0
    /\ cfg = DefaultCfg
    /\ run = IdleRun
    /\ peer = IdlePeer
    /\ fn \in LocateCalls

call_navigate_to_game_management ==
    /\ fn.f = "navigate_to_game_management" /\ ~fn.done
    /\ fn' = [fn EXCEPT !.done = TRUE,
                        !.out = navigate_to_game_management_on(fn.page, fn.keyword)]
    /\ UNCHANGED <<ledger, now, runs, cfg, run, peer>>

call_go_to_server_detail ==
    /\ fn.f = "go_to_server_detail" /\ ~fn.done
    /\ fn' = [fn EXCEPT !.done = TRUE,
                        !.out = go_to_server_detail_on(fn.page, fn.keyword, fn.lands)]
    /\ UNCHANGED <<ledger, now, runs, cfg, run, peer>>

NextLocate ==
    \/ call_navigate_to_game_management
    \/ call_go_to_server_detail

SpecLocate == InitLocate /\ [][NextLocate]_vars

(* ========================= parsing a cookie string ===================== *)
\* A cookie string is a sequence of tokens: a name or value character "a",
\* the separators "=" and ";", a blank, and the word "path", which stands
\* for the attribute names (path, domain, expires, max-age, samesite, secure,
\* httponly).  The three parsers are applied to every string up to
\* MaxCookieLen tokens and to the string "a=1; b=2; c = 3 ".
MaxCookieLen == 5
CookieTokens == {"a", "=", ";", " ", "path"}
CookieStrings == UNION {[1..n -> CookieTokens] : n \in 0..MaxCookieLen}
CookieExample ==
    <<"a", "=", "1", ";", " ", "b", "=", "2", ";", " ", "c", " ", "=", " ", "3", " ">>

\* renew_eternalzero: skip = {"path", "domain", ...}; of these words the
\* strings of the model contain "path"
SkipNames == {<<"path">>}

RECURSIVE LStrip(_)
LStrip(s) == IF s # <<>> /\ Head(s) = " " THEN LStrip(Tail(s)) ELSE s

RECURSIVE RStrip(_)
RStrip(s) ==
    IF s # <<>> /\ s[Len(s)] = " " THEN RStrip(SubSeq(s, 1, Len(s) - 1)) ELSE s

\* str.strip()
Strip(s) == RStrip(LStrip(s))

RECURSIVE SplitFrom(_, _, _)
\* the segments of s from position i on, cur being the segment under way
SplitFrom(s, i, cur) ==
    IF i > Len(s) THEN <<cur>>
    ELSE IF s[i] = ";" THEN <<cur>> \o SplitFrom(s, i + 1, <<>>)
    ELSE SplitFrom(s, i + 1, Append(cur, s[i]))

\* s.split(";")
Split(s) == SplitFrom(s, 1, <<>>)

RECURSIVE IndexFrom(_, _)
\* the position of the first "=" of s from i on; 0 when there is none
IndexFrom(s, i) ==
    IF i > Len(s) THEN 0
    ELSE IF s[i] = "=" THEN i
    ELSE IndexFrom(s, i + 1)

HasEq(s) == IndexFrom(s, 1) # 0

\* name, value = part.split("=", 1)
NameOf(part) == SubSeq(part, 1, IndexFrom(part, 1) - 1)
ValueOf(part) == SubSeq(part, IndexFrom(part, 1) + 1, Len(part))

RECURSIVE parse_cookie_pairs_loop(_)
parse_cookie_pairs_loop(parts) ==
    IF parts = <<>> THEN <<>>
    ELSE LET part == Strip(Head(parts))
             rest == parse_cookie_pairs_loop(Tail(parts))
         IN  IF part = <<>> \/ ~HasEq(part) THEN rest
             ELSE LET n == Strip(NameOf(part)) IN
                  IF n = <<>> \/ n \in SkipNames THEN rest
                  ELSE <<(<<n, Strip(ValueOf(part))>>)>> \o rest

\* renew_eternalzero.parse_cookie_pairs
parse_cookie_pairs(cookie_string) ==
    LET s == Strip(cookie_string) IN
    IF s = <<>> THEN <<>> ELSE parse_cookie_pairs_loop(Split(s))

RECURSIVE parse_cookie_string_loop(_)
parse_cookie_string_loop(parts) ==
    IF parts = <<>> THEN <<>>
    ELSE LET item == Strip(Head(parts))
             rest == parse_cookie_string_loop(Tail(parts))
         IN  IF item = <<>> \/ ~HasEq(item) THEN rest
             ELSE <<(<<Strip(NameOf(item)), Strip(ValueOf(item))>>)>> \o rest

\* xserver_autorenew.parse_cookie_string (the name and value of each cookie)
parse_cookie_string(cookie_str) == parse_cookie_string_loop(Split(cookie_str))

RECURSIVE parse_cookies_loop(_)
parse_cookies_loop(parts) ==
    IF parts = <<>> THEN <<>>
    ELSE LET kv == Strip(Head(parts))
             rest == parse_cookies_loop(Tail(parts))
         IN  IF kv = <<>> \/ ~HasEq(kv) THEN rest
             ELSE <<(<<Strip(NameOf(kv)), ValueOf(kv)>>)>> \o rest

\* auto_start_falix.parse_cookies (the name and value of each cookie)
parse_cookies(cookie_string) ==
    IF cookie_string = <<>> THEN <<>> ELSE parse_cookies_loop(Split(cookie_string))

CookieCalls ==
    [f : {"parse_cookie_pairs", "parse_cookie_string", "parse_cookies"},
     done : {FALSE}, arg : CookieStrings \cup {CookieExample}, out : {<<>>}]

InitCookie ==
    /\ ledger = <<>>
    /\ now = 0
    /\ runs = 0
    /\ cfg = DefaultCfg
    /\ run = IdleRun
    /\ peer = IdlePeer
    /\ fn \in CookieCalls

call_parse_cookie_pairs ==
    /\ fn.f = "parse_cookie_pairs" /\ ~fn.done
    /\ fn' = [fn EXCEPT !.done = TRUE, !.out = parse_cookie_pairs(fn.arg)]
    /\ UNCHANGED <<ledger, now, runs, cfg, run, peer>>

call_parse_cookie_string ==
    /\ fn.f = "parse_cookie_string" /\ ~fn.done
    /\ fn' = [fn EXCEPT !.done = TRUE, !.out = parse_cookie_string(fn.arg)]
    /\ UNCHANGED <<ledger, now, runs, cfg, run, peer>>

call_parse_cookies ==
    /\ fn.f = "parse_cookies" /\ ~fn.done
    /\ fn' = [fn EXCEPT !.done = TRUE, !.out = parse_cookies(fn.arg)]
    /\ UNCHANGED <<ledger, now, runs, cfg, run, peer>>

NextCookie ==
    \/ call_parse_cookie_pairs
    \/ call_parse_cookie_string
    \/ call_parse_cookies

SpecCookie == InitCookie /\ [][NextCookie]_vars

(* ===================== resolving a candidate element =================== *)
\* A lookup strategy (a selector, a role or text lookup of a name) matches a
\* list of elements in document order, each visible or hidden.  The code
\* depends on the position of the first visible match only, so a list holds
\* at most one visible element.  A lookup that raises is skipped by the code
\* like one without a visible match (except: continue / except: pass).
MaxMatches == 4
ScanCap == 3
SelectorCount == 2
NameCount == 2

MatchLists ==
    UNION {{[i \in 1..n |-> IF i = v THEN "visible" ELSE "hidden"] : v \in 0..n} :
           n \in 0..MaxMatches}

\* return None
NotFound == [strategy |-> 0, match |-> 0, kind |-> "none"]

RECURSIVE ScanMatches(_, _, _)
\* the position of the first visible match among the first cap matches, from
\* position i on; 0 when there is none
ScanMatches(matches, i, cap) ==
    IF i > Len(matches) \/ i > cap THEN 0
    ELSE IF matches[i] = "visible" THEN i
    ELSE ScanMatches(matches, i + 1, cap)

RECURSIVE TryStrategies_last(_, _, _)
TryStrategies_last(strategies, k, cap) ==
    IF k > Len(strategies) THEN NotFound
    ELSE LET later == TryStrategies_last(strategies, k + 1, cap)
             i == ScanMatches(strategies[k], 1, cap)
         IN  IF later # NotFound THEN later
             ELSE IF i # 0 THEN [strategy |-> k, match |-> i, kind |-> "visible"]
             ELSE NotFound

RECURSIVE TryStrategies(_, _, _)
\* for sel in selectors / for name in names: return at the first hit
TryStrategies(strategies, k, cap) ==
    IF k > Len(strategies) THEN NotFound
    ELSE LET i == ScanMatches(strategies[k], 1, cap) IN
         IF i # 0 THEN [strategy |-> k, match |-> i, kind |-> "visible"]
         ELSE TryStrategies(strategies, k + 1, cap)

\* renew_eternalzero.first_visible_locator: page.locator(sel).first
first_visible_locator(strategies) == TryStrategies(strategies, 1, 1)

\* auto_start_falix.locator_by_names: the role lookups of all names, then the
\* text lookups of all names, then the [data-action] element as it is
locator_by_names(strategies, data) ==
    LET found == TryStrategies(strategies, 1, ScanCap) IN
    IF found # NotFound THEN found
    ELSE IF data # "none"
         THEN [strategy |-> Len(strategies) + 1, match |-> 1, kind |-> data]
         ELSE NotFound

ResolveCalls ==
    [f : {"first_visible_locator"}, done : {FALSE},
     strategies : [1..SelectorCount -> MatchLists], data : {"none"},
     out : {NotFound}]
    \cup
    [f : {"locator_by_names"}, done : {FALSE},
     strategies : [1..(2 * NameCount) -> MatchLists],
     data : {"none", "hidden", "visible"}, out : {NotFound}]

InitResolve ==
    /\ ledger = <<>>
    /\ now = 0
    /\ runs = 0
    /\ cfg = DefaultCfg
    /\ run = IdleRun
    /\ peer = IdlePeer
    /\ fn \in ResolveCalls

call_first_visible_locator ==
    /\ fn.f = "first_visible_locator" /\ ~fn.done
    /\ fn' = [fn EXCEPT !.done = TRUE, !.out = first_visible_locator(fn.strategies)]
    /\ UNCHANGED <<ledger, now, runs, cfg, run, peer>>

call_locator_by_names ==
    /\ fn.f = "locator_by_names" /\ ~fn.done
    /\ fn' = [fn EXCEPT !.done = TRUE,
                        !.out = locator_by_names(fn.strategies, fn.data)]
    /\ UNCHANGED <<ledger, now, runs, cfg, run, peer>>

NextResolve ==
    \/ call_first_visible_locator
    \/ call_locator_by_names

SpecResolve == InitResolve /\ [][NextResolve]_vars

(* ================ functions applied to one page state ================== *)
\* Each function below is applied to what it can observe of a page, drawn
\* from a bounded set: fn holds the call, its argument and its result.

\* renew_eternalzero, the page after a login attempt: loginUrl = page.url
\* contains "/auth/login" or "/login"; pwd = the matches of the two password
\* selectors that login_with_cookie looks for
LoginPages == [loginUrl : BOOLEAN, pwd : [1..SelectorCount -> MatchLists]]

\* login_with_cookie after its navigation: "ok" (return True) or "raise"
login_with_cookie_verify(page) ==
    IF page.loginUrl THEN "raise"
    ELSE IF first_visible_locator(page.pwd) # NotFound THEN "raise"
    ELSE "ok"

\* login_with_email after its submit: "ok" (return True) or "raise"
login_with_email_verify(page) ==
    IF page.loginUrl THEN "raise" ELSE "ok"

\* xserver_autorenew, the page at the final submit of do_extend_hours: doc =
\* a click on one of final_texts succeeds in the main document; frames = the
\* same for each other frame; structural = for each selector of
\* click_submit_fallback, whether it matches nothing ("absent"), its first
\* match is hidden, or visible with a click that succeeds ("ok") or fails
\* ("stuck")
MaxFrames == 2
StructuralSelectors == 4
SubmitPages ==
    [doc : BOOLEAN,
     frames : UNION {[1..n -> BOOLEAN] : n \in 0..MaxFrames},
     structural : [1..StructuralSelectors -> {"absent", "hidden", "ok", "stuck"}]]

RECURSIVE click_frames(_, _)
\* click_text_global, for fr in page.frames: the click attempts from frame i on
click_frames(frames, i) ==
    IF i > Len(frames) THEN <<>>
    ELSE <<[tier |-> "frame", ctl |-> i, clicked |-> frames[i]]>>
         \o (IF frames[i] THEN <<>> ELSE click_frames(frames, i + 1))

\* click_text_global(page, final_texts): the click attempts in order
click_text_global_on(page) ==
    <<[tier |-> "doc", ctl |-> 0, clicked |-> page.doc]>>
    \o (IF page.doc THEN <<>> ELSE click_frames(page.frames, 1))

RECURSIVE click_submit_fallback_from(_, _)
\* click_submit_fallback from selector k on: return try_click(...) at the
\* first selector whose first match is visible, whatever the click gives
click_submit_fallback_from(structural, k) ==
    IF k > Len(structural) THEN <<>>
    ELSE IF structural[k] \in {"ok", "stuck"}
         THEN <<[tier |-> "structural", ctl |-> k, clicked |-> structural[k] = "ok"]>>
         ELSE click_submit_fallback_from(structural, k + 1)

\* do_extend_hours, the final submit: the click attempts in order; the stage
\* fails (return False) when none of them clicked
do_extend_hours_final(page) ==
    LET texts == click_text_global_on(page) IN
    IF AnyClicked(texts) THEN texts
    ELSE texts \o click_submit_fallback_from(page.structural, 1)

\* xserver_autorenew, the checkboxes of a page in document order.  A box is
\* visible or not, checked or not, has a label whose text is empty, contains
\* the first keyword only, or contains a longer keyword that contains the
\* first one, and el.check() on it succeeds or raises.  A page is pre
\* ordinary boxes (visible, unchecked, unlabelled) followed by up to MaxBoxes
\* boxes of any kind.
MaxBoxes == 2
\* count = min(boxes.count(), 5)
BoxCap == 5
\* two of the keywords, the second containing the first (romanised)
Keywords == <<"doui", "douishimasu">>
Boxes ==
    [visible : BOOLEAN, checked : BOOLEAN, label : {"", "doui", "douishimasu"},
     checkOk : BOOLEAN]
AgreePages == [pre : 0..BoxCap, boxes : UNION {[1..n -> Boxes] : n \in 0..MaxBoxes}]

PageBoxes(page) ==
    [i \in 1..page.pre |->
        [visible |-> TRUE, checked |-> FALSE, label |-> "", checkOk |-> TRUE]]
    \o page.boxes

\* label:has-text("k")
HasText(label, k) == label # "" /\ (k = "doui" \/ label = k)

RECURSIVE FirstLabel(_, _, _)
\* the box of the first label with text k, from box i on; 0 when none
FirstLabel(bs, k, i) ==
    IF i > Len(bs) THEN 0
    ELSE IF HasText(bs[i].label, k) THEN i
    ELSE FirstLabel(bs, k, i + 1)

RECURSIVE ClickLabels(_, _)
\* for k in keywords: click the first label with text k; a click on the
\* label of a checkbox toggles the box
ClickLabels(bs, ks) ==
    IF ks = <<>> THEN bs
    ELSE LET i == FirstLabel(bs, Head(ks), 1) IN
         ClickLabels(IF i = 0 THEN bs ELSE [bs EXCEPT ![i].checked = ~@], Tail(ks))

RECURSIVE CheckBoxes_unbounded(_, _, _)
CheckBoxes_unbounded(st, i, n) ==
    IF i > Len(st.boxes) THEN st
    ELSE LET b == st.boxes[i] IN
         IF b.visible /\ ~b.checked
         THEN CheckBoxes_unbounded(
                  [boxes |-> IF b.checkOk THEN [st.boxes EXCEPT ![i].checked = TRUE]
                             ELSE st.boxes,
                   calls |-> Append(st.calls, [i |-> i, visible |-> b.visible,
                                               checked |-> b.checked, ok |-> b.checkOk])],
                  i + 1, n)
         ELSE CheckBoxes_unbounded(st, i + 1, n)

RECURSIVE CheckBoxes(_, _, _)
\* for i in range(count): if el.is_visible() and not el.is_checked():
\* el.check(); calls is the list of the check calls made
CheckBoxes(st, i, n) ==
    IF i > n THEN st
    ELSE LET b == st.boxes[i] IN
         IF b.visible /\ ~b.checked
         THEN CheckBoxes(
                  [boxes |-> IF b.checkOk THEN [st.boxes EXCEPT ![i].checked = TRUE]
                             ELSE st.boxes,
                   calls |-> Append(st.calls, [i |-> i, visible |-> b.visible,
                                               checked |-> b.checked, ok |-> b.checkOk])],
                  i + 1, n)
         ELSE CheckBoxes(st, i + 1, n)

\* accept_required_checks on the boxes bs: the boxes after the call and the
\* check calls it made
accept_required_checks_on(bs) ==
    CheckBoxes([boxes |-> ClickLabels(bs, Keywords), calls |-> <<>>], 1,
               Smaller(Len(bs), BoxCap))

\* the pages of at most one checkbox
OneBoxPages == {p \in AgreePages : p.pre = 0 /\ Len(p.boxes) <= 1}

\* do_extend_hours from the first accept_required_checks to the second:
\* conf = the confirm click found a control, and the second call then acts
\* on the screen next; otherwise it acts on the boxes the first call left
do_extend_hours_agreements(page, conf, next) ==
    LET first == accept_required_checks_on(PageBoxes(page)) IN
    [first |-> first,
     second |-> accept_required_checks_on(IF conf THEN PageBoxes(next)
                                          ELSE first.boxes)]

PageCalls ==
    [f : {"login_with_cookie", "login_with_email"}, done : {FALSE},
     page : LoginPages, out : {"none"}]
    \cup
    [f : {"do_extend_hours_final"}, done : {FALSE}, page : SubmitPages, out : {<<>>}]
    \cup
    [f : {"accept_required_checks"}, done : {FALSE}, page : AgreePages, out : {<<>>}]
    \cup
    [f : {"do_extend_hours_agreements"}, done : {FALSE}, page : AgreePages,
     conf : {FALSE}, next : {[pre |-> 0, boxes |-> <<>>]}, out : {<<>>}]
    \cup
    [f : {"do_extend_hours_agreements"}, done : {FALSE}, page : OneBoxPages,
     conf : {TRUE}, next : OneBoxPages, out : {<<>>}]

InitPage ==
    /\ ledger = <<>>
    /\ now = 0
    /\ runs = 0
    /\ cfg = DefaultCfg
    /\ run = IdleRun
    /\ peer = IdlePeer
    /\ fn \in PageCalls

call_login_with_cookie ==
    /\ fn.f = "login_with_cookie" /\ ~fn.done
    /\ fn' = [fn EXCEPT !.done = TRUE, !.out = login_with_cookie_verify(fn.page)]
    /\ UNCHANGED <<ledger, now, runs, cfg, run, peer>>

call_login_with_email ==
    /\ fn.f = "login_with_email" /\ ~fn.done
    /\ fn' = [fn EXCEPT !.done = TRUE, !.out = login_with_email_verify(fn.page)]
    /\ UNCHANGED <<ledger, now, runs, cfg, run, peer>>

call_do_extend_hours_final ==
    /\ fn.f = "do_extend_hours_final" /\ ~fn.done
    /\ fn' = [fn EXCEPT !.done = TRUE, !.out = do_extend_hours_final(fn.page)]
    /\ UNCHANGED <<ledger, now, runs, cfg, run, peer>>

call_accept_required_checks ==
    /\ fn.f = "accept_required_checks" /\ ~fn.done
    /\ fn' = [fn EXCEPT !.done = TRUE,
                        !.out = accept_required_checks_on(PageBoxes(fn.page))]
    /\ UNCHANGED <<ledger, now, runs, cfg, run, peer>>

call_do_extend_hours_agreements ==
    /\ fn.f = "do_extend_hours_agreements" /\ ~fn.done
    /\ fn' = [fn EXCEPT !.done = TRUE,
                        !.out = do_extend_hours_agreements(fn.page, fn.conf, fn.next)]
    /\ UNCHANGED <<ledger, now, runs, cfg, run, peer>>

NextPage ==
    \/ call_login_with_cookie
    \/ call_login_with_email
    \/ call_do_extend_hours_final
    \/ call_accept_required_checks
    \/ call_do_extend_hours_agreements

SpecPage == InitPage /\ [][NextPage]_vars

(* ============================== properties ============================= *)
Exited == run.pc = "exit"
Last(l) == l[Len(l)]

\* the lines the current run added to the ledger
Added == SubSeq(ledger, Len(run.ledger0) + 1, Len(ledger))

\* C1: in xserver_autorenew a run changes the ledger only if do_extend_hours
\* returned success in that run; a run that ended in failure (nonzero exit
\* code) left the ledger as it was at the start of the run; and whatever the
\* run added is one whole line: timestamp, zone label and success marker.
C1_LedgerOnlyOnSuccess ==
    run.script = "xserver" =>
        /\ IsPrefix(run.ledger0, ledger)
        /\ (ledger # run.ledger0 => run.success = "yes" /\ Exited /\ run.rc = 0)
        /\ (Exited /\ run.rc # 0 => ledger = run.ledger0)
        /\ \A i \in 1..Len(Added) :
              /\ Added[i].hasTs
              /\ Added[i].label \in {LOG_TIMEZONE, "UTC"}
              /\ Added[i].marker = SuccessMarker

\* a run failed at the final submit although the ledger already had lines
C1_Witness ==
    /\ run.script = "xserver"
    /\ Exited /\ run.site = "submit" /\ run.rc = 4
    /\ LastSuccess(run.ledger0) > 0
    /\ ledger = run.ledger0

\* C2: acceptance on ambiguity.  When the final submit click succeeded and no
\* success phrase is visible, do_extend_hours still returns True, the ledger
\* gets its line and the exit code is 0; auto_start_falix returns 0 after a
\* Start click that did not raise even when the confirmation window elapsed
\* without an online indicator.
C2_AcceptanceOnAmbiguity ==
    /\ (run.script = "xserver" /\ run.phrase = "no" /\ run.pc \in {"x_finish", "exit"}) =>
          /\ run.txt = "yes" \/ run.fb = "yes"
          /\ run.success = "yes"
          /\ Exited => /\ run.rc = 0
                       /\ Len(ledger) = Len(run.ledger0) + 1
                       /\ IsSuccessLine(Last(ledger))
    /\ (run.script = "falix" /\ run.online = "elapsed") =>
          /\ run.startClicks = 1
          /\ Exited /\ run.rc = 0

\* the structural fallback clicked, no success phrase appeared, the run ended
C2_Witness ==
    /\ run.script = "xserver" /\ Exited
    /\ run.txt = "no" /\ run.fb = "yes" /\ run.phrase = "no"
    /\ run.rc = 0

\* the run is past its login stage (main's check of logged_in included)
PastLogin ==
    run.pc \notin {"idle", "gate", "x_main", "x_cookie", "x_password", "x_auth",
                   "e_main", "e_login", "e_cookie", "e_email", "f_main"}

AutoMode ==
    \/ run.script = "xserver" /\ run.due \in {"due", "forced"}
    \/ run.script = "eternal" /\ cfg.method = "AUTO"

\* C3: in Auto mode, for every combination of credentials: the password path
\* is not tried before the cookie path when a cookie is present; once the
\* cookie path verified, the password path is never invoked; when the cookie
\* verification failed and an identifier/secret pair is present, the password
\* path is invoked and the run is authenticated exactly when it verified; when
\* no path verified, the run is not authenticated and ends in failure.
C3_AutoModeFallback ==
    AutoMode =>
        /\ (run.pwdRes # "none" /\ has_cookie(cfg)) => run.cookieRes = "fail"
        /\ run.cookieRes = "ok" => run.pwdRes = "none" /\ run.logged_in
        /\ (PastLogin /\ run.cookieRes = "fail" /\ has_email(cfg)) =>
              /\ run.pwdRes # "none"
              /\ run.logged_in <=> run.pwdRes = "ok"
        /\ (PastLogin /\ run.cookieRes # "ok" /\ run.pwdRes # "ok") =>
              /\ ~run.logged_in
              /\ Exited /\ run.rc # 0 /\ run.site \in {"creds", "auth", "exception"}
        /\ run.logged_in <=> (run.cookieRes = "ok" \/ run.pwdRes = "ok")

\* the cookie failed, the password path verified, the run went on
C3_Witness ==
    /\ run.script = "eternal" /\ cfg.method = "AUTO"
    /\ run.cookieRes = "fail" /\ run.pwdRes = "ok" /\ run.logged_in
    /\ run.pc = "e_add"

\* C4: authentication failure is recoverable only in Auto mode.  With
\* FG_LOGIN_METHOD=COOKIE the password path is never invoked and a failed
\* cookie verification ends the run; with EMAIL the cookie path is never
\* invoked.
C4_CookieOnlyIsTerminal ==
    run.script = "eternal" =>
        /\ cfg.method = "COOKIE" => run.pwdRes = "none" /\ run.pc # "e_email"
        /\ (cfg.method = "COOKIE" /\ run.cookieRes = "fail") => Exited /\ run.rc # 0
        /\ cfg.method = "EMAIL" => run.cookieRes = "none" /\ run.pc # "e_cookie"

FailureClasses == {"creds", "auth", "locate", "entry", "submit"}

\* auto_start_falix has two exits for unusable credentials
ClassOf(site) == IF site = "unparsed" THEN "creds" ELSE site

\* the exit codes with which a script ends a run that failed in class c
ClassCodes(script, c) ==
    CASE script = "xserver" -> {xs_exit_code(c)}
      [] script = "eternal" -> IF c = "entry" THEN {} ELSE {ez_exit_code(c)}
      [] script = "falix" ->
            IF c = "creds" THEN {falix_exit_code("creds"), falix_exit_code("unparsed")}
            ELSE IF c = "locate" THEN {}
            ELSE {falix_exit_code(c)}
      [] OTHER -> {}

FailedInClass == Exited /\ ClassOf(run.site) \in FailureClasses

\* C5 as claimed: a run that fails in one of the five failure classes ends
\* with a nonzero exit code that the script uses for no other failure class.
C5_DistinctExitCodes ==
    FailedInClass =>
        /\ run.rc # 0
        /\ \A c \in FailureClasses \ {ClassOf(run.site)} :
              run.rc \notin ClassCodes(run.script, c)

\* C5 as amended: every failure class ends with a nonzero exit code;
\* auto_start_falix uses a code for one class only; xserver_autorenew does so
\* except that resource-location failure and workflow-entry failure both end
\* with code 3; renew_eternalzero ends every failure with code 1.
C5_ExitCodesAmended ==
    FailedInClass =>
        /\ run.rc # 0
        /\ run.script = "falix" =>
              \A c \in FailureClasses \ {ClassOf(run.site)} :
                 run.rc \notin ClassCodes(run.script, c)
        /\ run.script = "xserver" =>
              /\ \A c \in FailureClasses \ {run.site} :
                    run.rc \in ClassCodes(run.script, c) =>
                       {c, run.site} = {"locate", "entry"}
              /\ run.site \in {"locate", "entry"} => run.rc = 3
        /\ run.script = "eternal" => run.rc = 1

\* the upgrade/extend page could not be opened: exit code 3, as for a
\* game-management button that was not found
C5_Witness ==
    /\ run.script = "xserver" /\ Exited
    /\ run.site = "entry" /\ run.rc = 3

NoCredentials == cfg.cookie = "empty" /\ ~(cfg.email /\ cfg.password)

\* C6 as claimed: in every script, a run without a cookie and without a
\* complete identifier/secret pair ends in failure and never launches the
\* browser, creates a context or navigates.
C6_NoBrowsingWithoutCredentials ==
    (run.script \in Scripts /\ NoCredentials) =>
        /\ run.browser = "none" /\ run.context = "none" /\ ~run.navigated
        /\ (Exited /\ run.due # "notdue") => run.rc # 0

\* C6 as amended: such a run ends in failure without navigating to any page;
\* xserver_autorenew and auto_start_falix end it before the browser is
\* launched, renew_eternalzero launches the browser and the context first and
\* closes both.
C6_NoNavigationWithoutCredentials ==
    (run.script \in Scripts /\ NoCredentials) =>
        /\ ~run.navigated
        /\ run.cookieRes = "none" /\ run.pwdRes = "none"
        /\ (Exited /\ run.due # "notdue") => run.rc # 0 /\ run.site = "creds"
        /\ run.script \in {"xserver", "falix"} =>
              run.browser = "none" /\ run.context = "none"
        /\ (run.script = "eternal" /\ Exited) =>
              run.browser = "closed" /\ run.context = "closed"

\* renew_eternalzero ended a run without credentials: the browser had been
\* launched and was closed again, no page was visited
C6_Witness ==
    /\ run.script = "eternal" /\ NoCredentials
    /\ Exited /\ run.site = "creds" /\ run.rc = 1
    /\ run.browser = "closed"

SuccessIdx(l) == {i \in 1..Len(l) : l[i].hasTs /\ l[i].marker = SuccessMarker}
MaxOf(S) == CHOOSE x \in S : \A y \in S : y <= x

\* the hour at which the most recent success line of l was written
LastSuccessAt(l) == l[MaxOf(SuccessIdx(l))].at

\* C8: the gate decides before any authentication; a run is due when the
\* ledger holds no success line (whatever the interval) and otherwise exactly
\* when now >= T + I, T being the time of the most recent success line; a run
\* that is not due exits 0 without browsing and without touching the ledger.
C8_AdmissionGate ==
    run.script = "xserver" =>
        /\ run.due = "unknown" =>
              /\ run.pc = "gate" /\ run.browser = "none" /\ ~run.navigated
              /\ run.cookieRes = "none" /\ run.pwdRes = "none"
        /\ run.due \in {"due", "notdue"} =>
              /\ ~cfg.force
              /\ run.due = "due" <=>
                    \/ SuccessIdx(run.ledger0) = {}
                    \/ now >= LastSuccessAt(run.ledger0) + cfg.interval
        /\ run.due = "notdue" =>
              /\ Exited /\ run.rc = 0
              /\ run.browser = "none" /\ ~run.navigated
              /\ run.cookieRes = "none" /\ run.pwdRes = "none"
              /\ ledger = run.ledger0

\* a run admitted exactly at T + I, with two success lines in the ledger
C8_Witness ==
    /\ run.script = "xserver" /\ run.due = "due"
    /\ Cardinality(SuccessIdx(run.ledger0)) >= 2
    /\ now = LastSuccessAt(run.ledger0) + cfg.interval

\* C9: from an empty ledger with interval 60 h and no force flag the gate
\* opens; a run that then completes went through authentication, resource
\* location and the workflow, and leaves a ledger of exactly one line, which
\* has a timestamp the gate parses back to the hour of the run and carries the
\* success marker.
C9_EndToEnd ==
    (run.script = "xserver" /\ run.ledger0 = <<>> /\ cfg.interval = 60 /\ ~cfg.force) =>
        /\ run.due # "notdue"
        /\ run.pc # "gate" => run.due = "due"
        /\ (Exited /\ run.rc = 0) =>
              /\ run.logged_in /\ run.navigated /\ run.entry # "none"
              /\ run.success = "yes"
              /\ Len(ledger) = 1
              /\ Parseable(ledger[1])
              /\ ledger[1].marker = SuccessMarker
              /\ ParseTimestamp(ledger[1]) = now

\* the first run on an empty ledger completed
C9_Witness ==
    /\ run.script = "xserver" /\ run.ledger0 = <<>>
    /\ cfg.interval = 60 /\ ~cfg.force
    /\ Exited /\ run.rc = 0 /\ Len(ledger) = 1

\* C10: the ledger is append-only.  Every step leaves the old content as a
\* prefix of the new one and adds at most one line, and the step in which
\* main calls write_success_md adds exactly one line.
C10_AppendOnly ==
    [][/\ IsPrefix(ledger, ledger')
       /\ Len(ledger') <= Len(ledger) + 1
       /\ (run.pc = "x_finish" /\ run.success = "yes") =>
             Len(ledger') = Len(ledger) + 1]_vars

\* a line was appended to a ledger that already held two lines
C10_Witness ==
    /\ run.script = "xserver" /\ Exited
    /\ Len(run.ledger0) >= 2
    /\ Len(ledger) = Len(run.ledger0) + 1
    /\ SubSeq(ledger, 1, Len(run.ledger0)) = run.ledger0

\* both processes were admitted by the gate
BothDue == run.script = "xserver" /\ run.due = "due" /\ peer.due = "due"

\* ... and both ended after a successful workflow
BothAppended ==
    /\ BothDue
    /\ Exited /\ run.success = "yes"
    /\ peer.pc = "exit" /\ peer.success

\* C11: the cross-process race.  Two overlapping invocations on the same
\* ledger, without a lock, can both be found due; when both then complete,
\* each has appended its success line: the ledger has grown by two success
\* lines that lie closer together than the configured interval.
C11_RaceDoubleAppend ==
    BothAppended =>
        LET n == Len(ledger) IN
        /\ n = Len(peer.ledger0) + 2
        /\ SubSeq(ledger, 1, n - 2) = peer.ledger0
        /\ IsSuccessLine(ledger[n - 1]) /\ IsSuccessLine(ledger[n])
        /\ ledger[n].at - ledger[n - 1].at < cfg.interval
        /\ ledger[n - 1].at - ledger[n].at < cfg.interval

\* the interleaving exists: both were due on a ledger that already held a
\* success line, and both appended within the same hour
C11_Witness ==
    /\ BothAppended
    /\ LastSuccess(peer.ledger0) > 0
    /\ Len(ledger) = Len(peer.ledger0) + 2
    /\ ledger[Len(ledger)].at = ledger[Len(ledger) - 1].at

\* the stages of xserver_autorenew's main in which the resource is located
LocateStages == {"x_index", "x_nav", "x_upgrade"}

\* ... and those of do_extend_hours and of main after it
FlowStages ==
    {"x_ext_entry", "x_ext_select", "x_ext_confirm", "x_ext_submit", "x_ext_verify",
     "x_finish"}

\* do_extend_hours has been entered in this run
WorkflowStarted == run.pc \in FlowStages \/ run.entry # "none"

\* C12: stage ordering within one run.  Resource location starts only after
\* authentication was verified; the action workflow starts only after the
\* resource was activated and the workflow entry succeeded; the ledger is
\* appended to only after the workflow returned success; and after a stage
\* ended the run in failure no later stage has been entered.
C12_StageOrdering ==
    /\ run.script = "xserver" =>
          /\ (run.pc \in LocateStages \cup FlowStages \/ run.located # "none") =>
                run.logged_in
          /\ (run.pc = "x_upgrade" \/ run.opened # "none") => run.located = "yes"
          /\ WorkflowStarted => run.located = "yes" /\ run.opened = "yes"
          /\ ledger # run.ledger0 => run.success = "yes" /\ WorkflowStarted
          /\ (Exited /\ run.site = "auth") =>
                /\ run.located = "none" /\ run.opened = "none"
                /\ ~WorkflowStarted /\ ledger = run.ledger0
          /\ (Exited /\ run.site = "locate") =>
                run.opened = "none" /\ ~WorkflowStarted /\ ledger = run.ledger0
          /\ (Exited /\ run.site = "entry") =>
                ~WorkflowStarted /\ ledger = run.ledger0
          /\ (Exited /\ run.site = "submit") =>
                run.success = "no" /\ ledger = run.ledger0
    /\ run.script = "eternal" =>
          /\ (run.pc \in {"e_detail", "e_add"} \/ run.detail # "none") => run.logged_in
          /\ (run.pc = "e_add" \/ run.addObs # "none" \/ run.addClicks > 0) =>
                run.detail \in {"already", "opened"}
          /\ (Exited /\ run.site \in {"creds", "auth"}) =>
                run.detail = "none" /\ run.addObs = "none" /\ run.addClicks = 0
          /\ (Exited /\ run.site = "locate") =>
                run.addObs = "none" /\ run.addClicks = 0

\* a run went through every stage in order and appended its line
C12_Witness ==
    /\ run.script = "xserver" /\ Exited /\ run.rc = 0
    /\ run.logged_in /\ run.located = "yes" /\ run.opened = "yes"
    /\ run.success = "yes"
    /\ Len(ledger) = Len(run.ledger0) + 1

\* the run ended with a nonzero exit code or with an escaping exception
TerminalFailure == Exited /\ (run.rc # 0 \/ run.crashed)

\* C13 as claimed: every terminal failure of a run is preceded, in the same
\* run, by an attempt to write a diagnostic screenshot or markup dump.
C13_DiagnosticBeforeFailure == TerminalFailure => run.diag

\* C13 as amended: renew_eternalzero attempts error.png before every terminal
\* failure; xserver_autorenew attempts a screenshot before each exit with
\* code 2, 3 or 4, none before the exit for missing credentials, and before
\* an escaping navigation error only what an earlier step of the run took
\* (always one once the login was verified); auto_start_falix never writes a
\* diagnostic.
C13_DiagnosticAmended ==
    TerminalFailure =>
        /\ run.script = "eternal" => run.diag
        /\ (run.script = "xserver" /\ run.site \in {"auth", "locate", "entry", "submit"}) =>
              run.diag
        /\ (run.script = "xserver" /\ run.site = "creds") => ~run.diag
        /\ (run.script = "xserver" /\ run.site = "exception" /\ run.logged_in) => run.diag
        /\ run.script = "falix" => ~run.diag

\* renew_eternalzero failed to open the server detail page: error.png was
\* attempted before the exception left main
C13_Witness ==
    /\ run.script = "eternal" /\ Exited /\ run.crashed
    /\ run.site = "locate" /\ run.rc = 1
    /\ run.diag

\* C14: a timeout of a blocking wait (navigation, load-state wait, wait for
\* visible, click) is treated like a resolution miss: it never leaves main as
\* an unhandled exception and never by itself ends the run.
C14_TimeoutNeverEscapes == run.cause = "timeout" => ~run.crashed

\* C15: in do_extend_hours a failure of the option selection, of the agreement
\* acceptance or of the confirm click never changes the outcome.  Whatever
\* those stages found, the submit stage is reached, and do_extend_hours
\* returns False exactly when neither a text-pattern submit click nor the
\* structural fallback succeeded, and True otherwise.
C15_OnlySubmitDecides ==
    run.script = "xserver" =>
        /\ run.success # "none" =>
              /\ run.sel \in {"yes", "no"}
              /\ run.agree \in {"yes", "no"}
              /\ run.conf \in {"yes", "no"}
              /\ run.success = "no" <=> (run.txt = "no" /\ run.fb = "no")
              /\ run.success = "yes" <=> (run.txt = "yes" \/ run.fb = "yes")
        /\ (Exited /\ run.entry # "none") => run.success # "none"

\* nothing to select, nothing to agree to, no confirm button: the fallback
\* submit click still made the run a success
C15_Witness ==
    /\ run.script = "xserver" /\ Exited
    /\ run.sel = "no" /\ run.agree = "no" /\ run.conf = "no"
    /\ run.txt = "no" /\ run.fb = "yes"
    /\ run.success = "yes" /\ run.rc = 0

\* C16: idempotent re-entry.  When do_extend_hours starts on the screen that
\* already shows the final controls, its next step is the submit stage: no
\* entry click, no option selection, no agreement acceptance and no confirm
\* click is performed before the final submit.
C16_IdempotentReentry ==
    [][(run.pc = "x_ext_entry" /\ run.view = "final") =>
          /\ run'.pc = "x_ext_submit"
          /\ run'.entry = "none" /\ run'.sel = "none"
          /\ run'.agree = "none" /\ run'.conf = "none"]_vars

\* a locate function has returned
Located(f) == fn.f = f /\ fn.done

\* C17 as claimed: when the current view already shows the markers of the
\* target, locating the resource performs no navigation and no click, and
\* reports the resource as activated.
C17_LocateIsNoOpWhenOpen ==
    ((Located("navigate_to_game_management") \/ Located("go_to_server_detail"))
        /\ fn.page.open) =>
        /\ fn.out.navs = 0
        /\ fn.out.log = <<>>
        /\ fn.out.result = "activated"

\* C17 as amended: go_to_server_detail is such a no-op; in xserver_autorenew
\* navigate_to_game_management navigates to the game index whatever the page
\* shows, and reports success exactly when one of its clicks succeeded.
C17_NoOpInServerDetailOnly ==
    /\ (Located("go_to_server_detail") /\ fn.page.open) =>
          /\ fn.out.navs = 0
          /\ fn.out.log = <<>>
          /\ fn.out.result = "activated"
    /\ Located("navigate_to_game_management") =>
          /\ fn.out.navs = 1
          /\ fn.out.result = "activated" <=> AnyClicked(fn.out.log)
          /\ fn.out.result # "activated" => fn.out.result = "notfound"

\* the detail page was open although the list had a clickable keyword entry
C17_Witness ==
    /\ Located("go_to_server_detail") /\ fn.page.open
    /\ fn.keyword
    /\ \E i \in 1..Len(fn.page.entries) :
          fn.page.entries[i].kw /\ fn.page.entries[i].ctl = "ok"
    /\ fn.out.log = <<>> /\ fn.out.result = "activated"

\* a locate function has returned after looking for a control to click
Searched ==
    \/ Located("navigate_to_game_management")
    \/ Located("go_to_server_detail") /\ ~fn.page.open

\* the attempts of a log that clicked
ClickedOf(log) == SelectSeq(log, LAMBDA a : a.clicked)

TierRank(t) == CASE t = "keyword" -> 1 [] t = "first" -> 2 [] OTHER -> 3

\* the entries of the page whose text contains the keyword
KeywordEntries == {i \in 1..Len(fn.page.entries) : fn.page.entries[i].kw}

\* the fallbacks come in order, none is used after a click, one click at most
FallbacksInOrder(log) ==
    /\ \A j \in 1..Len(log) : \A i \in 1..(j - 1) :
          /\ ~log[i].clicked
          /\ TierRank(log[i].tier) <= TierRank(log[j].tier)
    /\ \A j \in 1..Len(log) : log[j].tier = "keyword" => fn.keyword
    /\ Len(ClickedOf(log)) <= 1

\* C18 as claimed: when a keyword is given and an entry containing it has a
\* clickable control, that entry's control is the one clicked and no other;
\* the first-entry fallback is used only when no keyword is given or the
\* keyword attempt clicked nothing, the last fallback only when the first-entry
\* fallback clicked nothing either; at most one control is clicked per call.
C18_FallbackOrder ==
    Searched =>
        /\ (fn.keyword /\ \E i \in KeywordEntries : fn.page.entries[i].ctl = "ok") =>
              /\ Len(ClickedOf(fn.out.log)) = 1
              /\ ClickedOf(fn.out.log)[1].ctl \in KeywordEntries
        /\ FallbacksInOrder(fn.out.log)

\* C18 as amended: the keyword attempt looks at the first entry containing
\* the keyword only.  When that entry's control is clickable it is the one
\* clicked and nothing else is; otherwise the fallbacks follow, in order, as
\* claimed, with at most one click per call.
C18_FirstMatchThenFallbacks ==
    Searched =>
        /\ (fn.keyword /\ KeywordEntries # {}) =>
              LET k == CHOOSE i \in KeywordEntries : \A j \in KeywordEntries : i <= j IN
              fn.page.entries[k].ctl = "ok" =>
                  fn.out.log = <<[tier |-> "keyword", ctl |-> k, clicked |-> TRUE]>>
        /\ FallbacksInOrder(fn.out.log)

\* the keyword entry is the second of the list and is clicked, the first
\* entry is left alone although its control is clickable too
C18_Witness ==
    /\ Searched /\ fn.keyword
    /\ Len(fn.page.entries) >= 2
    /\ ~fn.page.entries[1].kw /\ fn.page.entries[1].ctl = "ok"
    /\ fn.page.entries[2].kw /\ fn.page.entries[2].ctl = "ok"
    /\ fn.out.log = <<[tier |-> "keyword", ctl |-> 2, clicked |-> TRUE]>>

\* a cookie parser has returned
Parsed == fn.f \in {"parse_cookie_pairs", "parse_cookie_string", "parse_cookies"} /\ fn.done

\* the segment seg is one the claim keeps: it contains "=" and its name is
\* no attribute token (emptyNames: a segment with an empty name is kept)
KeptSegment(seg, emptyNames) ==
    /\ \E i \in 1..Len(seg) : seg[i] = "="
    /\ Strip(NameOf(seg)) \notin SkipNames
    /\ emptyNames \/ Strip(NameOf(seg)) # <<>>

\* the pairs the claim describes, for a cookie string s
ClaimedPairs(s, emptyNames) ==
    LET kept == SelectSeq(Split(s), LAMBDA seg : KeptSegment(seg, emptyNames))
    IN  [i \in 1..Len(kept) |-> <<Strip(NameOf(kept[i])), Strip(ValueOf(kept[i]))>>]

\* C19: for every cookie string, each parser returns exactly the name/value
\* pairs of the segments that contain "=", name and value both trimmed, in
\* the original order, without the empty segments and the attribute tokens
\* (the claim leaves open whether a segment with an empty name counts).
C19_CookieParsing ==
    Parsed =>
        \/ fn.out = ClaimedPairs(fn.arg, TRUE)
        \/ fn.out = ClaimedPairs(fn.arg, FALSE)

\* a resolver has returned
Resolved == fn.f \in {"first_visible_locator", "locator_by_names"} /\ fn.done

\* the positions of the visible ones among the first cap matches
VisibleWithin(matches, cap) ==
    {i \in 1..Len(matches) : i <= cap /\ matches[i] = "visible"}

Least(S) == CHOOSE x \in S : \A y \in S : x <= y

\* the strategies of the call with a visible match among their first cap
WithVisible(cap) ==
    {k \in 1..Len(fn.strategies) : VisibleWithin(fn.strategies[k], cap) # {}}

\* how many matches of a strategy the resolver looks at
Looked == IF fn.f = "first_visible_locator" THEN 1 ELSE ScanCap

\* C20: the element returned belongs to the earliest strategy that has at
\* least one visible match; when no strategy has a visible match the
\* resolver returns NotFound.
C20_EarliestVisibleStrategy ==
    Resolved =>
        IF WithVisible(MaxMatches + 1) # {}
        THEN /\ fn.out.strategy = Least(WithVisible(MaxMatches + 1))
             /\ fn.out.kind = "visible"
        ELSE fn.out = NotFound

\* C20 (amended): the element returned is the first visible one among the
\* matches looked at (the first match of a selector in first_visible_locator,
\* the first three of a lookup in locator_by_names) of the earliest strategy
\* that has one; when there is none, first_visible_locator returns NotFound
\* and locator_by_names returns the first [data-action] element, visible or
\* not, and NotFound only when no such element exists.
C20_EarliestAmongLooked ==
    Resolved =>
        IF WithVisible(Looked) # {}
        THEN LET k == Least(WithVisible(Looked)) IN
             fn.out = [strategy |-> k,
                       match |-> Least(VisibleWithin(fn.strategies[k], Looked)),
                       kind |-> "visible"]
        ELSE IF fn.f = "locator_by_names" /\ fn.data # "none"
             THEN fn.out = [strategy |-> Len(fn.strategies) + 1, match |-> 1,
                            kind |-> fn.data]
             ELSE fn.out = NotFound

\* a later strategy wins although an earlier one has a visible match that
\* the resolver did not look at
C20_Witness ==
    /\ Resolved
    /\ fn.out.strategy > 1
    /\ 1 \notin WithVisible(Looked)
    /\ 1 \in WithVisible(MaxMatches + 1)
    /\ fn.out.strategy \in WithVisible(Looked)
    /\ \E k \in 1..Len(fn.strategies) :
           k > fn.out.strategy /\ k \in WithVisible(Looked)

\* the function f has returned
Returned(f) == fn.f = f /\ fn.done

\* C21: login_with_email reports success only if, after the submit, the URL
\* is not a login URL and no password input is visible: on every page state
\* on which login_with_cookie reports a verification failure, login_with_email
\* reports failure too.
C21_SameIndicators ==
    (Returned("login_with_email") /\ fn.out = "ok") =>
        /\ ~fn.page.loginUrl
        /\ \A k \in 1..SelectorCount : fn.page.pwd[k] = <<>> \/ fn.page.pwd[k][1] # "visible"
        /\ login_with_cookie_verify(fn.page) = "ok"

\* the positions of the attempts of a tier in a log of click attempts
TierAt(log, tier) == {j \in 1..Len(log) : log[j].tier = tier}

\* the structural fallback was attempted only after the text patterns failed
\* in the main document and in every frame
FallbackAfterTexts(log, page) ==
    TierAt(log, "structural") # {} =>
        /\ ~page.doc /\ \A i \in 1..Len(page.frames) : ~page.frames[i]
        /\ {log[j].ctl : j \in TierAt(log, "frame")} = 1..Len(page.frames)
        /\ \A j \in TierAt(log, "structural") :
              \A i \in TierAt(log, "doc") \cup TierAt(log, "frame") :
                  i < j /\ ~log[i].clicked

\* C22: the structural fallback is attempted only after every final-submit
\* text pattern failed to click, in the main document and in every frame; and
\* the submit stage fails only when no text pattern and none of the four
\* structural selectors yields a visible element whose click succeeds.
C22_SubmitFallback ==
    Returned("do_extend_hours_final") =>
        /\ FallbackAfterTexts(fn.out, fn.page)
        /\ ~AnyClicked(fn.out) =>
              /\ ~fn.page.doc /\ \A i \in 1..Len(fn.page.frames) : ~fn.page.frames[i]
              /\ \A k \in 1..StructuralSelectors : fn.page.structural[k] # "ok"

\* the check calls of a result are made on distinct boxes among the first
\* BoxCap, each visible and not checked when the call was made
ChecksBounded(calls) ==
    /\ Len(calls) <= BoxCap
    /\ \A j \in 1..Len(calls) :
          /\ calls[j].i \in 1..BoxCap
          /\ calls[j].visible /\ ~calls[j].checked
          /\ \A h \in 1..Len(calls) : calls[h].i = calls[j].i => h = j

\* C23: accept_required_checks examines at most the first 5 checkboxes of the
\* page, calls check only on those among them that are visible and not
\* already checked, returns normally whatever the page contains, and on return
\* every visible checkbox among the first 5 whose check call succeeded is
\* checked.
C23_AgreementBounded ==
    Returned("accept_required_checks") =>
        /\ DOMAIN fn.out = {"boxes", "calls"}
        /\ Len(fn.out.boxes) = Len(PageBoxes(fn.page))
        /\ ChecksBounded(fn.out.calls)
        /\ \A j \in 1..Len(fn.out.calls) :
              fn.out.calls[j].ok => fn.out.boxes[fn.out.calls[j].i].checked

\* five boxes were checked and a sixth, visible and unchecked, was left alone
C23_Witness ==
    /\ Returned("accept_required_checks")
    /\ Len(fn.out.calls) = BoxCap
    /\ \E i \in 1..Len(fn.out.boxes) :
          i > BoxCap /\ fn.out.boxes[i].visible /\ ~fn.out.boxes[i].checked

\* C24: every element returned by locator_by_names, through any of its
\* strategies including the data-action fallback, was observed visible by the
\* resolver in that call (it is a match of a role or text lookup that the
\* scan found visible); and main clicks Start only after observing it enabled.
C24_OnlyUsableElements ==
    /\ (Returned("locator_by_names") /\ fn.out # NotFound) =>
           /\ fn.out.strategy \in 1..Len(fn.strategies)
           /\ fn.strategies[fn.out.strategy][fn.out.match] = "visible"
    /\ (run.script = "falix" /\ run.startClicks > 0) => run.startEn = "yes"

\* the lines the current run of xserver_autorenew has written
Written == IF run.script = "xserver" THEN Added ELSE <<>>

\* C25: every line written by write_success_md consists of a timestamp, a
\* zone label and the success marker, and the label names the zone in which
\* the timestamp was computed: the configured zone when it could be loaded,
\* "UTC" with a UTC timestamp when it could not.
C25_LedgerLineFormat ==
    \A i \in 1..Len(Written) :
        LET line == Written[i] IN
        /\ line.hasTs /\ line.marker = SuccessMarker
        /\ IF cfg.tzOk
           THEN line.label = LOG_TIMEZONE /\ line.ts = line.at + TokyoOffset
           ELSE line.label = "UTC" /\ line.ts = line.at
        /\ ParseTimestamp(line) = line.at

\* a line was written by a run whose configured zone could not be loaded
C25_Witness ==
    /\ Exited /\ run.script = "xserver" /\ ~cfg.tzOk
    /\ Len(Written) = 1 /\ Written[1].label = "UTC" /\ Written[1].ts = now

\* C26: agreement acceptance never undoes itself.  When the confirm click
\* found nothing, so that both calls of accept_required_checks act on the
\* same screen, every checkbox that is checked after the first call is still
\* checked after the second, which is the state in which the final submit is
\* clicked.
C26_AcceptanceKept ==
    (Returned("do_extend_hours_agreements") /\ ~fn.conf) =>
        \A i \in 1..Len(fn.out.first.boxes) :
            fn.out.first.boxes[i].checked => fn.out.second.boxes[i].checked

\* the clicks of a final submit control in the current run of do_extend_hours:
\* by the entry step on the final screen, and by the submit step
SubmitClicks ==
    (IF run.view = "submitted" THEN 1 ELSE 0)
    + (IF run.txt = "yes" \/ run.fb = "yes" THEN 1 ELSE 0)

\* C27: in any execution of do_extend_hours, including one that starts on a
\* screen already showing the final submit control, the final submit control
\* is clicked at most once, and a run in which it was clicked never ends with
\* the final-submit failure code 4.
C27_SubmitAtMostOnce ==
    run.script = "xserver" =>
        /\ SubmitClicks <= 1
        /\ (Exited /\ SubmitClicks >= 1) => run.rc # xs_exit_code("submit")

\* C28: auto_start_falix ends with the "controls not found" code 6 only when
\* neither a Start nor a Stop control was found: a run in which
\* wait_for_power_controls returned at least one visible control ends with
\* another code.
C28_NotFoundOnlyWhenNoControl ==
    (run.script = "falix" /\ Exited /\ ~run.crashed
       /\ run.rc = falix_exit_code("entry")) =>
        /\ run.startObs # "visible" /\ run.stopObs # "visible"
        /\ run.startObs = "none" /\ run.stopObs = "none"

\* C29: auto_start_falix clicks Start at most once per run, and only in a run
\* where a Start control was found enabled and no enabled Stop control was
\* found; a run that found an enabled Stop control issues no click; and exit
\* code 5 is returned only when the Start click itself raised (the
\* confirmation loop that follows a successful click was never entered).
C29_StartClickedOnce ==
    run.script = "falix" =>
        /\ run.startClicks <= 1
        /\ run.startClicks > 0 => (run.startEn = "yes" /\ run.stopEn # "yes")
        /\ run.stopEn = "yes" => run.startClicks = 0
        /\ (Exited /\ ~run.crashed /\ run.rc = falix_exit_code("submit")) =>
              (run.startClicks = 1 /\ run.online = "none")

\* C30: in xserver_autorenew and renew_eternalzero, every run that launched
\* the browser has closed the browsing context and the browser when the
\* process exits, whichever exit code is produced and whichever step failed,
\* including a navigation that raises.
C30_ResourcesReleased ==
    (run.script \in {"xserver", "eternal"} /\ Exited /\ run.browser # "none") =>
        run.context = "closed" /\ run.browser = "closed"

\* click_add_5h has been called in the current run
AddCalled == run.pc = "e_add" \/ run.addObs # "none"

\* C31: in renew_eternalzero, go_to_server_detail returns normally only if
\* its last check observed the detail-page markers, and otherwise raises
\* after taking its screenshot (the path on which the final check failed);
\* click_add_5h is never called in a run where authentication failed or the
\* markers were never observed; and ADD 5H is clicked at most once per run.
C31_AddOnlyOnVerifiedView ==
    run.script = "eternal" =>
        /\ AddCalled => (run.logged_in /\ run.detail \in {"already", "opened"})
        /\ run.addClicks <= 1
        /\ run.detail \notin {"none", "already", "opened"} =>
              /\ Exited /\ run.crashed /\ run.site = "locate" /\ ~AddCalled
              /\ run.detail = "failed"

====
